---- MODULE Spec2Model ----
(***************************************************************************)
(* SelectQuery / ValuesQuery of bun: the builder, the two rendering modes, *)
(* Count, Scan and ScanAndCount.                                           *)
(*                                                                         *)
(* SQL text is a sequence of string tokens: appending bytes is \o.  A      *)
(* template is a token sequence in which the token "?" is an argument      *)
(* position.                                                               *)
(***************************************************************************)
EXTENDS Integers, Sequences, FiniteSets, TLC

VARIABLES
    q,        \* the SelectQuery under construction (fields of the struct)
    panicked, \* a builder call or a render crashed the calling goroutine
    hist,     \* history: calls made on q, whether a joinOn found no join
    out,      \* what the last render or execution returned
    rend,     \* the text of each kind of render of q done so far
    driver,   \* how many queries of each kind reached the driver
    sc,       \* Scan: position, events and result of one execution
    sac,      \* ScanAndCount: the two goroutines, the mutex, firstErr
    vq        \* the ValuesQuery and its model

vars == <<q, panicked, hist, out, rend, driver, sc, sac, vq>>

----------------------------------------------------------------------------
(* Bounds *)

MaxCalls == 4

----------------------------------------------------------------------------
(* Errors.  nil is NoErr. *)

NoErr == "nil"
ErrNoJoins == "bun: query has no joins"
ErrMapSliceEmpty == "bun: map slice is empty"
ErrModelNil == "bun: Model(nil)"
ErrDriverScan == "driver: scan failed"
ErrDriverCount == "driver: count failed"
ErrLoader == "loader: select failed"
ErrAfterSelect == "hook: AfterSelect failed"

RelationErr(table, name) ==
    CASE name = "Nope"  -> "does not have relation=Nope"
      [] name = "Other" -> "does not have relation=Other"
      [] OTHER          -> "does not have relation"

----------------------------------------------------------------------------
(* sqlfmt: query nodes and the two formatters *)

Literal == "literal"
Nop == "nop"
Formatters == {Literal, Nop}

\* sqlfmt.Append: an argument as a quoted SQL literal
AppendValue(arg) ==
    CASE arg = "foo" -> "'foo'"
      [] arg = "bar" -> "'bar'"
      [] arg = "5"   -> "5"
      [] OTHER       -> "NULL"

\* sqlfmt.UnsafeIdent: a name rendered verbatim, Args == nil
UnsafeIdent(name) == [Query |-> <<name>>, Args |-> <<>>, NilArgs |-> TRUE]

\* sqlfmt.SafeQuery: a template and its positional arguments (Args is never
\* nil: a call without arguments stores an empty, non-nil list)
SafeQuery(query, args) == [Query |-> query, Args |-> args, NilArgs |-> FALSE]

\* sqlfmt.SafeQueryWithSep
SafeQueryWithSep(query, args, sep) ==
    [Query |-> query, Args |-> args, NilArgs |-> FALSE, Sep |-> sep]

ZeroQuery == [Query |-> <<>>, Args |-> <<>>, NilArgs |-> TRUE]

IsZero(node) == Len(node.Query) = 0 /\ node.NilArgs

\* the literal formatter: the k-th "?" becomes the literal of the k-th
\* argument; a "?" with no argument left stays as it is
FormatQuery(query, args) ==
    [i \in 1..Len(query) |->
        LET k == Cardinality({j \in 1..i : query[j] = "?"})
        IN  IF query[i] = "?" /\ k <= Len(args)
            THEN AppendValue(args[k]) ELSE query[i]]

IsNopFormatter(fmter) == fmter = Nop

\* QueryWithArgs.AppendQuery: the template verbatim when there are no
\* arguments or the formatter is the placeholder one
NodeAppendQuery(fmter, node) ==
    IF node.NilArgs \/ IsNopFormatter(fmter)
    THEN node.Query
    ELSE FormatQuery(node.Query, node.Args)

----------------------------------------------------------------------------
(* schema: the tables a model can be bound to, and their relations *)

HasOneRelation == "has-one"
BelongsToRelation == "belongs-to"
HasManyRelation == "has-many"
ManyToManyRelation == "many-to-many"

NoTable == [Name |-> "", SQLNameForSelects |-> "", Alias |-> "", Fields |-> <<>>]

UserTable ==
    [Name |-> "User", SQLNameForSelects |-> "users", Alias |-> "user",
     Fields |-> <<"id", "name">>]

ProfileTable ==
    [Name |-> "Profile", SQLNameForSelects |-> "profiles", Alias |-> "profile",
     Fields |-> <<"id", "bio">>]

\* a table with more fields than the placeholder formatter lists
WideTable ==
    [Name |-> "Wide", SQLNameForSelects |-> "wide", Alias |-> "wide",
     Fields |-> <<"f1", "f2", "f3", "f4", "f5", "f6", "f7", "f8", "f9", "f10",
                  "f11">>]

Tables == {UserTable, WideTable}

\* table.FieldMap[name]: whether the table has a field of that name
InFieldMap(table, name) == \E i \in 1..Len(table.Fields) : table.Fields[i] = name

\* a join descriptor of a table model: relation type, alias, the joined
\* model's fields, the explicit column subset, the joined model's own joins
MkJoin(type, alias, fields, columns, joins) ==
    [Type |-> type, Alias |-> alias, Fields |-> fields, columns |-> columns,
     Joins |-> joins]

IsHasOne(j) == j.Type \in {HasOneRelation, BelongsToRelation}

RECURSIVE HasOneJoins(_)
\* SelectQuery._forEachHasOneJoin: the has-one/belongs-to joins in the order
\* fn visits them: a join, then the has-one joins of its model, depth first
HasOneJoins(joins) ==
    IF Len(joins) = 0 THEN <<>>
    ELSE LET j == Head(joins)
         IN  (IF IsHasOne(j) THEN <<j>> \o HasOneJoins(j.Joins) ELSE <<>>)
             \o HasOneJoins(Tail(joins))

\* SelectQuery.forEachHasOneJoin: nothing to visit without a table model
forEachHasOneJoin(sq) == IF sq.tableModel THEN HasOneJoins(sq.modelJoins) ELSE <<>>

----------------------------------------------------------------------------
(* Rendering of a SelectQuery *)

RECURSIVE AppendList(_, _, _, _, _)
\* the loop "for i, f := range list { if i > 0 { sep }; open; f; close }"
AppendList(fmter, list, sep, open, close) ==
    IF Len(list) = 0 THEN <<>>
    ELSE open \o NodeAppendQuery(fmter, Head(list)) \o close
         \o (IF Len(list) > 1 THEN sep ELSE <<>>)
         \o AppendList(fmter, Tail(list), sep, open, close)

RECURSIVE AppendListWithSep(_, _, _)
\* the same loop where every node brings its own separator (where, join on)
AppendListWithSep(fmter, list, first) ==
    IF Len(list) = 0 THEN <<>>
    ELSE (IF first THEN <<>> ELSE <<Head(list).Sep>>)
         \o <<"(">> \o NodeAppendQuery(fmter, Head(list)) \o <<")">>
         \o AppendListWithSep(fmter, Tail(list), FALSE)

RECURSIVE appendFieldColumns(_, _)
\* appendColumns(b, alias, fields): alias.column for every field
appendFieldColumns(alias, fields) ==
    IF Len(fields) = 0 THEN <<>>
    ELSE (IF alias = "" THEN <<Head(fields)>> ELSE <<alias, ".", Head(fields)>>)
         \o (IF Len(fields) > 1 THEN <<", ">> ELSE <<>>)
         \o appendFieldColumns(alias, Tail(fields))

\* the number of fields above which the placeholder formatter abbreviates
MaxListedFields == 10

\* the token fmt.Sprintf("%d columns", n) quoted by sqlfmt.AppendString
NColumns(n) == IF n = 11 THEN "'11 columns'" ELSE "'N columns'"

RECURSIVE appendExplicitColumns(_, _, _)
\* SelectQuery.appendColumns, case len(q.columns) > 0: an identifier that
\* names a field of the table is qualified by the alias.  Reading
\* q.table.FieldMap with no table bound dereferences nil: panic |-> TRUE.
appendExplicitColumns(fmter, sq, cols) ==
    IF Len(cols) = 0 THEN [b |-> <<>>, panic |-> FALSE]
    ELSE LET col  == Head(cols)
             rest == appendExplicitColumns(fmter, sq, Tail(cols))
             sep  == IF Len(cols) > 1 THEN <<", ">> ELSE <<>>
             this == IF col.NilArgs /\ sq.tableModel
                        /\ InFieldMap(sq.table, col.Query[1])
                     THEN <<sq.table.Alias, ".", col.Query[1]>>
                     ELSE NodeAppendQuery(fmter, col)
         IN  IF col.NilArgs /\ ~sq.tableModel
             THEN [b |-> <<>>, panic |-> TRUE]
             ELSE [b |-> this \o sep \o rest.b, panic |-> rest.panic]

RECURSIVE appendAliasedFields(_, _)
appendAliasedFields(alias, fields) ==
    IF Len(fields) = 0 THEN <<>>
    ELSE <<alias, ".", Head(fields), " AS ", alias, "__", Head(fields)>>
         \o (IF Len(fields) > 1 THEN <<", ">> ELSE <<>>)
         \o appendAliasedFields(alias, Tail(fields))

\* SelectQuery.appendHasOneColumns: the join's explicit columns, or all the
\* fields of the joined model, each aliased relation__field
appendHasOneColumns(fmter, join) ==
    IF Len(join.columns) > 0
    THEN AppendList(fmter, join.columns, <<", ">>, <<>>, <<>>)
    ELSE appendAliasedFields(join.Alias, join.Fields)

RECURSIVE appendHasOneColumnsLoop(_, _, _, _)
\* the callback appendColumns passes to forEachHasOneJoin: a ", " when bytes
\* were written since start, then the join's columns
appendHasOneColumnsLoop(fmter, js, b, start) ==
    IF Len(js) = 0 THEN b
    ELSE LET b1 == IF Len(b) # start THEN b \o <<", ">> ELSE b
             s1 == IF Len(b) # start THEN Len(b1) ELSE start
         IN  appendHasOneColumnsLoop(
                 fmter, Tail(js), b1 \o appendHasOneColumns(fmter, Head(js)), s1)

\* bytes.TrimSuffix(b, ", ")
TrimSuffix(b) ==
    IF Len(b) > 0 /\ b[Len(b)] = ", " THEN SubSeq(b, 1, Len(b) - 1) ELSE b

\* appendColumns abbreviating the column list whatever the formatter
appendColumnsAnyFormatter(fmter, sq) ==
    LET own ==
            IF Len(sq.columns) > 0
            THEN appendExplicitColumns(fmter, sq, sq.columns)
            ELSE IF sq.tableModel
            THEN IF Len(sq.table.Fields) > MaxListedFields
                 THEN [b |-> <<sq.table.Alias, ".",
                                NColumns(Len(sq.table.Fields))>>,
                       panic |-> FALSE]
                 ELSE [b |-> appendFieldColumns(sq.table.Alias, sq.table.Fields),
                       panic |-> FALSE]
            ELSE [b |-> <<"*">>, panic |-> FALSE]
    IN  [b |-> TrimSuffix(
                   appendHasOneColumnsLoop(fmter, forEachHasOneJoin(sq), own.b, 0)),
         panic |-> own.panic]

\* SelectQuery.appendColumns
appendColumns(fmter, sq) ==
    LET own ==
            IF Len(sq.columns) > 0
            THEN appendExplicitColumns(fmter, sq, sq.columns)
            ELSE IF sq.tableModel
            THEN IF Len(sq.table.Fields) > MaxListedFields /\ IsNopFormatter(fmter)
                 THEN [b |-> <<sq.table.Alias, ".",
                                NColumns(Len(sq.table.Fields))>>,
                       panic |-> FALSE]
                 ELSE [b |-> appendFieldColumns(sq.table.Alias, sq.table.Fields),
                       panic |-> FALSE]
            ELSE [b |-> <<"*">>, panic |-> FALSE]
    IN  [b |-> TrimSuffix(
                   appendHasOneColumnsLoop(fmter, forEachHasOneJoin(sq), own.b, 0)),
         panic |-> own.panic]

\* baseQuery.modelHasTableName / baseQuery.hasTables
modelHasTableName(sq) == ~IsZero(sq.modelTable) \/ sq.tableModel
hasTables(sq) == modelHasTableName(sq) \/ Len(sq.tables) > 0

\* SelectQuery.appendTables
appendTables(fmter, sq) ==
    LET own ==
            IF modelHasTableName(sq)
            THEN IF ~IsZero(sq.modelTable)
                 THEN NodeAppendQuery(fmter, sq.modelTable)
                 ELSE <<sq.table.SQLNameForSelects>>
                      \o (IF sq.table.Alias # sq.table.SQLNameForSelects
                          THEN <<" AS ", sq.table.Alias>> ELSE <<>>)
            ELSE <<>>
    IN  <<" FROM ">> \o own
        \o (IF Len(own) > 0 /\ Len(sq.tables) > 0 THEN <<", ">> ELSE <<>>)
        \o AppendList(fmter, sq.tables, <<", ">>, <<>>, <<>>)

RECURSIVE appendHasOneJoins(_)
\* the callback appendQuery passes to forEachHasOneJoin: ' ' and the join
appendHasOneJoins(js) ==
    IF Len(js) = 0 THEN <<>>
    ELSE <<" ", "LEFT JOIN ", Head(js).Alias, " ON (", Head(js).Alias, ")">>
         \o appendHasOneJoins(Tail(js))

\* joinQuery.AppendQuery
joinAppendQuery(fmter, j) ==
    <<" ">> \o NodeAppendQuery(fmter, j.join)
    \o (IF Len(j.on) > 0
        THEN <<" ON ">> \o AppendListWithSep(fmter, j.on, TRUE) ELSE <<>>)

RECURSIVE appendJoins(_, _)
appendJoins(fmter, joins) ==
    IF Len(joins) = 0 THEN <<>>
    ELSE joinAppendQuery(fmter, Head(joins)) \o appendJoins(fmter, Tail(joins))

\* whereBaseQuery.appendWhere
appendWhere(fmter, sq) ==
    IF Len(sq.where) = 0 THEN <<>>
    ELSE <<" WHERE ">> \o AppendListWithSep(fmter, sq.where, TRUE)

\* SelectQuery.appendOrder
appendOrder(fmter, sq) ==
    IF Len(sq.order) > 0
    THEN <<" ORDER BY ">> \o AppendList(fmter, sq.order, <<", ">>, <<>>, <<>>)
    ELSE <<>>

\* strconv.AppendInt(b, n, 10)
AppendInt(n) ==
    CASE n = -1 -> "-1"
      [] n = 0  -> "0"
      [] n = 1  -> "1"
      [] n = 2  -> "2"
      [] OTHER  -> "n"

\* appendTail skipping ORDER BY only, LIMIT and OFFSET kept in a count
appendTailKeepsLimit(fmter, sq, count) ==
    (IF ~count THEN appendOrder(fmter, sq) ELSE <<>>)
    \o (IF sq.limit # 0 THEN <<" LIMIT ", AppendInt(sq.limit)>> ELSE <<>>)
    \o (IF sq.offset # 0 THEN <<" OFFSET ", AppendInt(sq.offset)>> ELSE <<>>)
    \o (IF ~count /\ ~IsZero(sq.selFor)
        THEN <<" FOR ">> \o NodeAppendQuery(fmter, sq.selFor) ELSE <<>>)

\* appendTail keeping the tail inside the count wrapper
appendTailWhenWrapped(fmter, sq, count) ==
    IF ~count \/ Len(sq.group) > 0 \/ sq.distinct
    THEN appendOrder(fmter, sq)
         \o (IF sq.limit # 0 THEN <<" LIMIT ", AppendInt(sq.limit)>> ELSE <<>>)
         \o (IF sq.offset # 0 THEN <<" OFFSET ", AppendInt(sq.offset)>> ELSE <<>>)
         \o (IF ~IsZero(sq.selFor)
             THEN <<" FOR ">> \o NodeAppendQuery(fmter, sq.selFor) ELSE <<>>)
    ELSE <<>>

\* SelectQuery.appendQuery, lines 437-460: what only a non-count render has
appendTail(fmter, sq, count) ==
    IF ~count
    THEN appendOrder(fmter, sq)
         \o (IF sq.limit # 0 THEN <<" LIMIT ", AppendInt(sq.limit)>> ELSE <<>>)
         \o (IF sq.offset # 0 THEN <<" OFFSET ", AppendInt(sq.offset)>> ELSE <<>>)
         \o (IF ~IsZero(sq.selFor)
             THEN <<" FOR ">> \o NodeAppendQuery(fmter, sq.selFor) ELSE <<>>)
    ELSE <<>>

\* SelectQuery.appendQuery, line 340
cteCount(sq, count) == count /\ (Len(sq.group) > 0 \/ sq.distinct)

\* SelectQuery.appendQuery, lines 372-379
appendSelectList(fmter, sq, count) ==
    IF count /\ ~cteCount(sq, count)
    THEN [b |-> <<"count(*)">>, panic |-> FALSE]
    ELSE appendColumns(fmter, sq)

Failed(err) == [err |-> err, b |-> <<>>, panic |-> FALSE]
Crashed == [err |-> NoErr, b |-> <<>>, panic |-> TRUE]

RECURSIVE appendQuery(_, _, _)
RECURSIVE appendUnion(_, _)

\* SelectQuery.AppendQuery
AppendQuery(fmter, sq) == appendQuery(fmter, sq, FALSE)

\* SelectQuery.appendQuery, lines 462-474: every union member in parentheses
appendUnion(fmter, union) ==
    IF Len(union) = 0 THEN [err |-> NoErr, b |-> <<>>, panic |-> FALSE]
    ELSE LET u    == Head(union)
             this == AppendQuery(fmter, u.query)
             rest == appendUnion(fmter, Tail(union))
         IN  IF this.panic THEN Crashed
             ELSE IF this.err # NoErr THEN Failed(this.err)
             ELSE IF rest.panic THEN Crashed
             ELSE IF rest.err # NoErr THEN Failed(rest.err)
             ELSE [err |-> NoErr, panic |-> FALSE,
                   b |-> <<u.expr, "(">> \o this.b \o <<")">> \o rest.b]

\* SelectQuery.appendQuery
appendQuery(fmter, sq, count) ==
    IF sq.err # NoErr THEN Failed(sq.err)
    ELSE
    LET cols   == appendSelectList(fmter, sq, count)
        unions == appendUnion(fmter, sq.union)
        body   ==
            (IF cteCount(sq, count) THEN <<"WITH _count_wrapper AS (">> ELSE <<>>)
            \o (IF Len(sq.union) > 0 THEN <<"(">> ELSE <<>>)
            \o <<"SELECT ">>
            \o (IF Len(sq.distinctOn) > 0
                THEN <<"DISTINCT ON (">>
                     \o AppendList(fmter, sq.distinctOn, <<", ">>, <<>>, <<>>)
                     \o <<") ">>
                ELSE IF sq.distinct THEN <<"DISTINCT ">> ELSE <<>>)
            \o cols.b
            \o (IF hasTables(sq) THEN appendTables(fmter, sq) ELSE <<>>)
            \o appendHasOneJoins(forEachHasOneJoin(sq))
            \o appendJoins(fmter, sq.joins)
            \o appendWhere(fmter, sq)
            \o (IF Len(sq.group) > 0
                THEN <<" GROUP BY ">>
                     \o AppendList(fmter, sq.group, <<", ">>, <<>>, <<>>)
                ELSE <<>>)
            \o (IF Len(sq.having) > 0
                THEN <<" HAVING ">>
                     \o AppendList(fmter, sq.having, <<" AND ">>, <<"(">>, <<")">>)
                ELSE <<>>)
            \o appendTail(fmter, sq, count)
            \o (IF Len(sq.union) > 0 THEN <<")">> \o unions.b ELSE <<>>)
            \o (IF cteCount(sq, count)
                THEN <<") SELECT count(*) FROM _count_wrapper">> ELSE <<>>)
    IN  IF cols.panic \/ unions.panic THEN Crashed
        ELSE IF unions.err # NoErr THEN Failed(unions.err)
        ELSE [err |-> NoErr, b |-> body, panic |-> FALSE]

----------------------------------------------------------------------------
(* The builder: every method returns the query it was called on *)

\* NewSelectQuery.  tableModel says whether q.tableModel (and q.table) is
\* set; modelJoins are the joins of the table model.
NewSelectQuery ==
    [err |-> NoErr, tableModel |-> FALSE, table |-> NoTable, modelJoins |-> <<>>,
     modelTable |-> ZeroQuery, columns |-> <<>>, tables |-> <<>>, where |-> <<>>,
     distinct |-> FALSE, distinctOn |-> <<>>, joins |-> <<>>, group |-> <<>>,
     having |-> <<>>, order |-> <<>>, limit |-> 0, offset |-> 0,
     selFor |-> ZeroQuery, union |-> <<>>]

\* SelectQuery.Model (baseQuery.setTableModel with a struct model)
Model(sq, table) ==
    [sq EXCEPT !.tableModel = TRUE, !.table = table, !.modelJoins = <<>>]

\* SelectQuery.Distinct: an empty, non-nil list
Distinct(sq) == [sq EXCEPT !.distinct = TRUE, !.distinctOn = <<>>]

DistinctOn(sq, query, args) ==
    [sq EXCEPT !.distinct = TRUE,
               !.distinctOn = Append(sq.distinctOn, SafeQuery(query, args))]

Table(sq, table) == [sq EXCEPT !.tables = Append(sq.tables, UnsafeIdent(table))]

TableExpr(sq, query, args) ==
    [sq EXCEPT !.tables = Append(sq.tables, SafeQuery(query, args))]

ModelTableExpr(sq, query, args) == [sq EXCEPT !.modelTable = SafeQuery(query, args)]

Column(sq, column) ==
    [sq EXCEPT !.columns = Append(sq.columns, UnsafeIdent(column))]

ColumnExpr(sq, query, args) ==
    [sq EXCEPT !.columns = Append(sq.columns, SafeQuery(query, args))]

Where(sq, query, args) ==
    [sq EXCEPT !.where = Append(sq.where, SafeQueryWithSep(query, args, " AND "))]

WhereOr(sq, query, args) ==
    [sq EXCEPT !.where = Append(sq.where, SafeQueryWithSep(query, args, " OR "))]

Group(sq, column) == [sq EXCEPT !.group = Append(sq.group, UnsafeIdent(column))]

GroupExpr(sq, query, args) ==
    [sq EXCEPT !.group = Append(sq.group, SafeQuery(query, args))]

Having(sq, query, args) ==
    [sq EXCEPT !.having = Append(sq.having, SafeQuery(query, args))]

Order(sq, column) == [sq EXCEPT !.order = Append(sq.order, UnsafeIdent(column))]

OrderExpr(sq, query, args) ==
    [sq EXCEPT !.order = Append(sq.order, SafeQuery(query, args))]

\* SelectQuery.Limit / Offset: n is the int32 the conversion stores
Limit(sq, n) == [sq EXCEPT !.limit = n]
Offset(sq, n) == [sq EXCEPT !.offset = n]

For(sq, query, args) == [sq EXCEPT !.selFor = SafeQuery(query, args)]

\* SelectQuery.addUnion (Union, UnionAll, Intersect, ..., ExceptAll)
addUnion(sq, expr, other) ==
    [sq EXCEPT !.union = Append(sq.union, [expr |-> expr, query |-> other])]

\* SelectQuery.Join
Join(sq, join, args) ==
    [sq EXCEPT !.joins = Append(sq.joins, [join |-> SafeQuery(join, args),
                                           on |-> <<>>])]

\* SelectQuery.joinOn (JoinOn with " AND ", JoinOnOr with " OR "): with no
\* join the error is assigned; otherwise the condition goes to the last join
joinOn(sq, cond, args, sep) ==
    IF Len(sq.joins) = 0
    THEN [sq EXCEPT !.err = ErrNoJoins]
    ELSE [sq EXCEPT !.joins[Len(sq.joins)].on =
                        Append(@, SafeQueryWithSep(cond, args, sep))]

\* the relations the schema declares for a table
RelationOf(table, name) ==
    IF table.Name = "User" /\ name = "Profile"
    THEN MkJoin(HasOneRelation, "profile", ProfileTable.Fields, <<>>, <<>>)
    ELSE IF table.Name = "User" /\ name = "Posts"
    THEN MkJoin(HasManyRelation, "posts", <<"id", "user_id">>, <<>>, <<>>)
    ELSE MkJoin("", "", <<>>, <<>>, <<>>)

HasRelation(table, name) == RelationOf(table, name).Type # ""

\* tableModel.Join(name, fn): the model's join for the relation, added when
\* it is not there yet
modelJoin(sq, name) ==
    LET j == RelationOf(sq.table, name)
    IN  IF \E i \in 1..Len(sq.modelJoins) : sq.modelJoins[i].Alias = j.Alias
        THEN sq.modelJoins
        ELSE Append(sq.modelJoins, j)

\* SelectQuery.Relation(name, apply...): nApply is len(apply).  More than one
\* apply function panics; q.tableModel.Join on a nil table model is a nil
\* dereference; an unknown relation assigns the error.
Relation(sq, name, nApply) ==
    IF nApply > 1 THEN [q |-> sq, panic |-> TRUE]
    ELSE IF ~sq.tableModel THEN [q |-> sq, panic |-> TRUE]
    ELSE IF ~HasRelation(sq.table, name)
    THEN [q |-> [sq EXCEPT !.err = RelationErr(sq.table, name)], panic |-> FALSE]
    ELSE [q |-> [sq EXCEPT !.modelJoins = modelJoin(sq, name)], panic |-> FALSE]

----------------------------------------------------------------------------
(* The execution facade: Exec, Scan, Count as functions of the query and of
   what the driver, the relation loader and the AfterSelect hook answer *)

Ev(ev, arg) == [ev |-> ev, arg |-> arg]

RECURSIVE selectJoinsIgnoringErrors(_, _)
\* selectJoins going on after a loader failed, returning the last error
selectJoinsIgnoringErrors(joins, failing) ==
    IF Len(joins) = 0 THEN [loads |-> <<>>, err |-> NoErr]
    ELSE LET j    == Head(joins)
             this == IF IsHasOne(j)
                     THEN selectJoinsIgnoringErrors(j.Joins, failing)
                     ELSE [loads |-> <<Ev("load", j.Alias)>>,
                           err |-> IF j.Alias \in failing THEN ErrLoader
                                   ELSE NoErr]
             rest == selectJoinsIgnoringErrors(Tail(joins), failing)
         IN  [loads |-> this.loads \o rest.loads,
              err |-> IF rest.err # NoErr THEN rest.err ELSE this.err]

RECURSIVE selectJoins(_, _)
\* SelectQuery.selectJoins: has-one/belongs-to joins are descended into, any
\* other join is loaded by j.Select; the first error ends the walk.
\* failing is the set of join aliases whose loader fails.
selectJoins(joins, failing) ==
    IF Len(joins) = 0 THEN [loads |-> <<>>, err |-> NoErr]
    ELSE LET j    == Head(joins)
             this == IF IsHasOne(j)
                     THEN selectJoins(j.Joins, failing)
                     ELSE [loads |-> <<Ev("load", j.Alias)>>,
                           err |-> IF j.Alias \in failing THEN ErrLoader
                                   ELSE NoErr]
             rest == selectJoins(Tail(joins), failing)
         IN  IF this.err # NoErr THEN this
             ELSE [loads |-> this.loads \o rest.loads, err |-> rest.err]

\* SelectQuery.Scan.  drv = [err, n] is the driver's answer, hookErr the
\* AfterSelect hook's.  events lists what happened, in order.
Scan(sq, drv, failing, hookErr) ==
    LET r     == AppendQuery(Literal, sq)
        loads == IF drv.n > 0 /\ sq.tableModel
                 THEN selectJoins(sq.modelJoins, failing)
                 ELSE [loads |-> <<>>, err |-> NoErr]
        e1    == <<Ev("render", "")>>
        e2    == e1 \o <<Ev("query", "")>>
        e3    == e2 \o loads.loads
        e4    == e3 \o <<Ev("AfterSelect", "")>>
    IN  IF r.panic THEN [events |-> e1, err |-> NoErr, panic |-> TRUE, query |-> <<>>]
        ELSE IF r.err # NoErr
        THEN [events |-> e1, err |-> r.err, panic |-> FALSE, query |-> <<>>]
        ELSE IF drv.err # NoErr
        THEN [events |-> e2, err |-> drv.err, panic |-> FALSE, query |-> r.b]
        ELSE IF loads.err # NoErr
        THEN [events |-> e3, err |-> loads.err, panic |-> FALSE, query |-> r.b]
        ELSE IF sq.tableModel
        THEN [events |-> e4, err |-> hookErr, panic |-> FALSE, query |-> r.b]
        ELSE [events |-> e3, err |-> NoErr, panic |-> FALSE, query |-> r.b]

\* SelectQuery.Exec
Exec(sq, drvErr, hookErr) ==
    LET r  == AppendQuery(Literal, sq)
        e1 == <<Ev("render", "")>>
        e2 == e1 \o <<Ev("query", "")>>
    IN  IF r.panic THEN [events |-> e1, err |-> NoErr, panic |-> TRUE, query |-> <<>>]
        ELSE IF r.err # NoErr
        THEN [events |-> e1, err |-> r.err, panic |-> FALSE, query |-> <<>>]
        ELSE IF drvErr # NoErr
        THEN [events |-> e2, err |-> drvErr, panic |-> FALSE, query |-> r.b]
        ELSE IF sq.tableModel
        THEN [events |-> e2 \o <<Ev("AfterSelect", "")>>, err |-> hookErr,
              panic |-> FALSE, query |-> r.b]
        ELSE [events |-> e2, err |-> NoErr, panic |-> FALSE, query |-> r.b]

\* SelectQuery.Count: num is what the driver's row holds
Count(sq, drvErr, num) ==
    LET r  == appendQuery(Literal, sq, TRUE)
        e1 == <<Ev("render", "")>>
        e2 == e1 \o <<Ev("query", "")>>
    IN  IF r.panic
        THEN [events |-> e1, err |-> NoErr, panic |-> TRUE, query |-> <<>>, num |-> 0]
        ELSE IF r.err # NoErr
        THEN [events |-> e1, err |-> r.err, panic |-> FALSE, query |-> <<>>,
              num |-> 0]
        ELSE IF drvErr # NoErr
        THEN [events |-> e2, err |-> drvErr, panic |-> FALSE, query |-> r.b,
              num |-> 0]
        ELSE [events |-> e2, err |-> NoErr, panic |-> FALSE, query |-> r.b,
              num |-> num]

\* whether an execution reached the driver
Queried(res) == \E i \in 1..Len(res.events) : res.events[i].ev = "query"

----------------------------------------------------------------------------
(* Spec: a caller chains builder calls on one SelectQuery and renders or
   executes it in between, MaxCalls calls in all *)

NoOut == [op |-> "none", err |-> NoErr, b |-> <<>>, queried |-> FALSE]
NoRend == [done |-> FALSE, err |-> NoErr, b |-> <<>>]
IdleRend == [lit |-> NoRend, nop |-> NoRend, cnt |-> NoRend]
NoDriver == [exec |-> 0, scan |-> 0, count |-> 0]
IdleScan ==
    [done |-> FALSE, events |-> <<>>, err |-> NoErr, n |-> 0, drvErr |-> NoErr,
     failing |-> {}, hookErr |-> NoErr]
IdleSAC ==
    [pc |-> "idle", scan |-> "none", count |-> "none", mu |-> "free",
     wg |-> 0, firstErr |-> NoErr, scanErr |-> NoErr, countErr |-> NoErr,
     recorded |-> <<>>, num |-> 0, destWritten |-> FALSE, ret |-> NoErr,
     retNum |-> 0]
IdleValues ==
    [kind |-> "none", err |-> NoErr, slice |-> <<>>, keys |-> <<>>,
     keysNil |-> TRUE, withOrder |-> FALSE, valuesRow |-> FALSE,
     modelValues |-> <<>>]

BuilderOps == {"Model", "Column", "Where", "Join", "JoinOn", "JoinOnOr", "Relation"}
RenderOps == {"AppendQuery", "Exec", "Scan", "Count"}

Init ==
    /\ q = NewSelectQuery
    /\ panicked = FALSE
    /\ hist = [calls |-> 0, lastOp |-> "none", joinOnFailed |-> FALSE]
    /\ out = NoOut
    /\ rend = IdleRend
    /\ driver = NoDriver
    /\ sc = IdleScan
    /\ sac = IdleSAC
    /\ vq = IdleValues

CanCall == ~panicked /\ hist.calls < MaxCalls

\* a builder call that cannot fail: the query changes, nothing else does
Built(op, sq) ==
    /\ CanCall
    /\ q' = sq
    /\ hist' = [hist EXCEPT !.calls = @ + 1, !.lastOp = op]
    /\ UNCHANGED <<panicked, out, rend, driver, sc, sac, vq>>

DoModel == \E t \in Tables : Built("Model", Model(q, t))

DoColumn == Built("Column", Column(q, "id"))

DoWhere == Built("Where", Where(q, <<"?", " = ", "?">>, <<"foo", "bar">>))

DoJoin == Built("Join", Join(q, <<"JOIN t2">>, <<>>))

DoJoinOn ==
    /\ CanCall
    /\ q' = joinOn(q, <<"t2.id = ", "?">>, <<"5">>, " AND ")
    /\ hist' = [hist EXCEPT !.calls = @ + 1, !.lastOp = "JoinOn",
                            !.joinOnFailed = @ \/ Len(q.joins) = 0]
    /\ UNCHANGED <<panicked, out, rend, driver, sc, sac, vq>>

DoJoinOnOr ==
    /\ CanCall
    /\ q' = joinOn(q, <<"t2.id = ", "?">>, <<"5">>, " OR ")
    /\ hist' = [hist EXCEPT !.calls = @ + 1, !.lastOp = "JoinOnOr",
                            !.joinOnFailed = @ \/ Len(q.joins) = 0]
    /\ UNCHANGED <<panicked, out, rend, driver, sc, sac, vq>>

RelationNames == {"Profile", "Posts", "Nope", "Other"}

DoRelation ==
    \E name \in RelationNames, nApply \in 0..2 :
        LET r == Relation(q, name, nApply)
        IN  /\ CanCall
            /\ q' = r.q
            /\ panicked' = r.panic
            /\ hist' = [hist EXCEPT !.calls = @ + 1, !.lastOp = "Relation"]
            /\ UNCHANGED <<out, rend, driver, sc, sac, vq>>

\* a render or an execution of q: what it returned, whether it crashed, and
\* the driver call it made
Ran(op, res, kind) ==
    /\ CanCall
    /\ panicked' = res.panic
    /\ out' = [op |-> op, err |-> res.err, b |-> res.b, queried |-> res.queried]
    /\ driver' = IF res.queried THEN [driver EXCEPT ![kind] = @ + 1] ELSE driver
    /\ hist' = [hist EXCEPT !.calls = @ + 1, !.lastOp = op]
    /\ UNCHANGED <<q, rend, sac, vq>>

DoAppendQuery ==
    \E fmter \in Formatters :
        LET r == AppendQuery(fmter, q)
        IN  /\ Ran("AppendQuery",
                   [err |-> r.err, b |-> r.b, panic |-> r.panic, queried |-> FALSE],
                   "exec")
            /\ UNCHANGED sc

DoExec ==
    \E drvErr \in {NoErr, ErrDriverScan}, hookErr \in {NoErr, ErrAfterSelect} :
        LET r == Exec(q, drvErr, hookErr)
        IN  /\ Ran("Exec",
                   [err |-> r.err, b |-> r.query, panic |-> r.panic,
                    queried |-> Queried(r)],
                   "exec")
            /\ UNCHANGED sc

DoScan ==
    \E drvErr \in {NoErr, ErrDriverScan}, n \in 0..1,
       failing \in SUBSET {"posts"}, hookErr \in {NoErr, ErrAfterSelect} :
        LET r == Scan(q, [err |-> drvErr, n |-> n], failing, hookErr)
        IN  /\ Ran("Scan",
                   [err |-> r.err, b |-> r.query, panic |-> r.panic,
                    queried |-> Queried(r)],
                   "scan")
            /\ sc' = [done |-> TRUE, events |-> r.events, err |-> r.err, n |-> n,
                      drvErr |-> drvErr, failing |-> failing, hookErr |-> hookErr]

DoCount ==
    \E drvErr \in {NoErr, ErrDriverCount} :
        LET r == Count(q, drvErr, 1)
        IN  /\ Ran("Count",
                   [err |-> r.err, b |-> r.query, panic |-> r.panic,
                    queried |-> Queried(r)],
                   "count")
            /\ UNCHANGED sc

Next ==
    \/ DoModel
    \/ DoColumn
    \/ DoWhere
    \/ DoJoin
    \/ DoJoinOn
    \/ DoJoinOnOr
    \/ DoRelation
    \/ DoAppendQuery
    \/ DoExec
    \/ DoScan
    \/ DoCount

Spec == Init /\ [][Next]_vars

----------------------------------------------------------------------------
(* Claims about the build-time error (checked under Spec) *)

\* C1: the build-time error is sticky and first-wins: once a builder call has
\* recorded an error, no later call (a further failing JoinOn or Relation
\* included) changes the stored error.
C1_ErrorFirstWins == [][q.err # NoErr => q'.err = q.err]_vars

\* C2: a JoinOn/JoinOnOr on a query with no join records an error without
\* crashing, and from then on every render (AppendQuery, Exec, Scan, Count)
\* returns that error, produces no SQL text and makes no driver call.
C2_JoinOnErrorReturned ==
    /\ (hist.lastOp \in {"JoinOn", "JoinOnOr"} /\ Len(q.joins) = 0)
           => (~panicked /\ q.err # NoErr)
    /\ (hist.joinOnFailed /\ hist.lastOp \in RenderOps)
           => (out.err = ErrNoJoins /\ out.b = <<>> /\ ~out.queried)

\* C3: no builder call panics, whatever the misuse: Relation with no bound
\* model, Relation with more than one apply function and Column with no
\* bound model return the builder, the first two with the error recorded.
C3_BuilderNeverPanics == hist.lastOp \in BuilderOps => ~panicked

----------------------------------------------------------------------------
(* SpecRender: a built query is rendered by AppendQuery in both formatter
   modes and by Count, in any order.  The built queries are the results of
   builder call chains. *)

Opt(S, F(_)) == S \cup {F(s) : s \in S}

WithModel ==
    {NewSelectQuery, Model(NewSelectQuery, UserTable),
     Model(NewSelectQuery, WideTable),
     Relation(Model(NewSelectQuery, UserTable), "Profile", 0).q}

AddColumns(s) == IF s.tableModel THEN Column(s, "id")
                 ELSE ColumnExpr(s, <<"1">>, <<>>)
AddColumnExpr(s) == ColumnExpr(s, <<"upper(", "?", ")">>, <<"foo">>)
AddTable(s) == Table(s, "t1")
AddJoin(s) ==
    joinOn(joinOn(Join(s, <<"JOIN t2">>, <<>>),
                  <<"t2.id = ", "?">>, <<"5">>, " AND "),
           <<"t2.x = ", "?">>, <<"bar">>, " OR ")
AddWhere(s) ==
    WhereOr(Where(s, <<"?", " = ", "?">>, <<"foo", "bar">>), <<"a = ", "?">>, <<"5">>)
AddGroup(s) == Group(s, "name")
AddHaving(s) == Having(Having(s, <<"n > ", "?">>, <<"5">>), <<"m > 0">>, <<>>)
AddOrder(s) == OrderExpr(Order(s, "id"), <<"?", " DESC">>, <<"foo">>)
AddLimit(s) == Limit(s, 2)
AddOffset(s) == Offset(s, 1)
AddFor(s) == For(s, <<"UPDATE">>, <<>>)
AddDistinct(s) == Distinct(s)
AddDistinctOn(s) == DistinctOn(s, <<"lower(", "?", ")">>, <<"bar">>)
AddUnion(s) ==
    addUnion(s, " UNION ",
             Limit(Where(Table(NewSelectQuery, "t3"), <<"b = ", "?">>, <<"foo">>), 1))

FromChoices(s) ==
    {s, AddTable(s), AddJoin(AddTable(s)), AddWhere(AddJoin(AddTable(s))),
     AddWhere(s)}

GroupChoices(s) == {s, AddGroup(s), AddHaving(AddGroup(s))}

TailChoices(s) ==
    {s, AddOrder(s), AddLimit(s), AddOffset(AddLimit(AddOrder(s))),
     AddFor(AddOffset(AddLimit(AddOrder(s)))), AddFor(s)}

DistinctChoices(s) == {s, AddDistinct(s), AddDistinctOn(s)}

BuiltQueries ==
    LET s1 == Opt(WithModel, AddColumns) \cup {AddColumnExpr(s) : s \in WithModel}
        s2 == UNION {FromChoices(s) : s \in s1}
        s3 == UNION {GroupChoices(s) : s \in s2}
        s4 == UNION {TailChoices(s) : s \in s3}
        s5 == UNION {DistinctChoices(s) : s \in s4}
    IN  Opt(s5, AddUnion)

InitRender ==
    /\ q \in BuiltQueries
    /\ panicked = FALSE
    /\ hist = [calls |-> 0, lastOp |-> "none", joinOnFailed |-> FALSE]
    /\ out = NoOut
    /\ rend = IdleRend
    /\ driver = NoDriver
    /\ sc = IdleScan
    /\ sac = IdleSAC
    /\ vq = IdleValues

Rendered(r) == [done |-> TRUE, err |-> r.err, b |-> r.b]

\* AppendQuery with the dialect's formatter: literal SQL
RenderLiteral ==
    /\ ~rend.lit.done
    /\ rend' = [rend EXCEPT !.lit = Rendered(AppendQuery(Literal, q))]
    /\ UNCHANGED <<q, panicked, hist, out, driver, sc, sac, vq>>

\* AppendQuery with sqlfmt.NewNopFormatter(): placeholder SQL
RenderNop ==
    /\ ~rend.nop.done
    /\ rend' = [rend EXCEPT !.nop = Rendered(AppendQuery(Nop, q))]
    /\ UNCHANGED <<q, panicked, hist, out, driver, sc, sac, vq>>

\* the render Count does: appendQuery(q.db.fmter, nil, true)
RenderCount ==
    /\ ~rend.cnt.done
    /\ rend' = [rend EXCEPT !.cnt = Rendered(appendQuery(Literal, q, TRUE))]
    /\ UNCHANGED <<q, panicked, hist, out, driver, sc, sac, vq>>

NextRender == RenderLiteral \/ RenderNop \/ RenderCount

SpecRender == InitRender /\ [][NextRender]_vars

----------------------------------------------------------------------------
(* Claims about the rendered text (checked under SpecRender) *)

RECURSIVE ArgsOfList(_)
ArgsOfList(list) ==
    IF Len(list) = 0 THEN <<>> ELSE Head(list).Args \o ArgsOfList(Tail(list))

RECURSIVE ArgsOfJoins(_)
ArgsOfJoins(joins) ==
    IF Len(joins) = 0 THEN <<>>
    ELSE Head(joins).join.Args \o ArgsOfList(Head(joins).on)
         \o ArgsOfJoins(Tail(joins))

\* the positional arguments the clause nodes of a query carry, clause by
\* clause in the order of the SQL text
OwnArgs(sq) ==
    ArgsOfList(sq.distinctOn) \o ArgsOfList(sq.columns) \o sq.modelTable.Args
    \o ArgsOfList(sq.tables) \o ArgsOfJoins(sq.joins) \o ArgsOfList(sq.where)
    \o ArgsOfList(sq.group) \o ArgsOfList(sq.having) \o ArgsOfList(sq.order)
    \o sq.selFor.Args

RECURSIVE UnionArgs(_)
UnionArgs(union) ==
    IF Len(union) = 0 THEN <<>>
    ELSE OwnArgs(Head(union).query) \o UnionArgs(Tail(union))

\* the members of a UNION follow the clauses of the query itself
AllArgs(sq) == OwnArgs(sq) \o UnionArgs(sq.union)

NumTokens(b, tok) == Cardinality({i \in 1..Len(b) : b[i] = tok})

BothRendered ==
    /\ rend.lit.done /\ rend.nop.done
    /\ rend.lit.err = NoErr /\ rend.nop.err = NoErr

\* the placeholder formatter abbreviates the column list of q
Abbreviates(sq) ==
    sq.tableModel /\ Len(sq.columns) = 0 /\ Len(sq.table.Fields) > MaxListedFields

\* b with the abbreviation alias.'N columns' written out as the column list
Unabbreviated(b, table) ==
    LET tok == NColumns(Len(table.Fields))
        i   == CHOOSE k \in 1..Len(b) : b[k] = tok
    IN  SubSeq(b, 1, i - 3) \o appendFieldColumns(table.Alias, table.Fields)
        \o SubSeq(b, i + 1, Len(b))

CountPrefix == <<"WITH _count_wrapper AS (">>
CountSuffix == <<") SELECT count(*) FROM _count_wrapper">>

CountAndLiteralRendered ==
    /\ rend.lit.done /\ rend.cnt.done
    /\ rend.lit.err = NoErr /\ rend.cnt.err = NoErr

Grouped(sq) == Len(sq.group) > 0 \/ sq.distinct

\* the query without its ORDER BY, LIMIT, OFFSET and FOR
WithoutTail(sq) ==
    [sq EXCEPT !.order = <<>>, !.limit = 0, !.offset = 0, !.selFor = ZeroQuery]

HasTail(sq) == sq # WithoutTail(sq)

\* C9 as stated: the count rendering of a query with GROUP BY or DISTINCT is
\* the normal rendering, ORDER BY, LIMIT, OFFSET and FOR included, between
\* the wrapper's prefix and suffix.
C9_WrapsWholeQuery ==
    (CountAndLiteralRendered /\ Grouped(q)) =>
        rend.cnt.b = CountPrefix \o rend.lit.b \o CountSuffix

\* C9 amended: the count rendering of a query with GROUP BY or DISTINCT is,
\* between the wrapper's prefix and suffix, the normal rendering of the query
\* without its ORDER BY, LIMIT, OFFSET and FOR clauses (so the whole normal
\* rendering when none of them is set).
C9_WrapsQueryWithoutTail ==
    (CountAndLiteralRendered /\ Grouped(q)) =>
        /\ rend.cnt.b
               = CountPrefix \o AppendQuery(Literal, WithoutTail(q)).b \o CountSuffix
        /\ ~HasTail(q) => rend.cnt.b = CountPrefix \o rend.lit.b \o CountSuffix

C9_Witness ==
    /\ CountAndLiteralRendered
    /\ Len(q.group) > 0
    /\ Len(q.order) > 0 /\ q.limit # 0 /\ q.offset # 0 /\ ~IsZero(q.selFor)

TailTokens == {" ORDER BY ", " LIMIT ", " OFFSET "}

\* the segments of the normal rendering around the column list and the tail
SelectOpen(sq) == (IF Len(sq.union) > 0 THEN <<"(">> ELSE <<>>) \o <<"SELECT ">>
UnionPart(sq) ==
    IF Len(sq.union) > 0 THEN <<")">> \o appendUnion(Literal, sq.union).b ELSE <<>>

\* the count rendering is the normal one with count(*) for the column list
\* and without the tail clauses
CountReplacesColumns(sq) ==
    LET cnt  == rend.cnt.b
        open == SelectOpen(sq)
        rest == UnionPart(sq)
        mid  == SubSeq(cnt, Len(open) + 2, Len(cnt) - Len(rest))
    IN  /\ cnt = open \o <<"count(*)">> \o mid \o rest
        /\ rend.lit.b = open \o appendColumns(Literal, sq).b \o mid
                        \o appendTail(Literal, sq, FALSE) \o rest

\* C10 as stated: the count rendering of a query with no GROUP BY and no
\* DISTINCT has count(*) for the column list, the same FROM, join, WHERE and
\* HAVING text, and nowhere an ORDER BY, LIMIT or OFFSET.
C10_CountHasNoTailAnywhere ==
    (CountAndLiteralRendered /\ ~Grouped(q)) =>
        /\ CountReplacesColumns(q)
        /\ \A i \in 1..Len(rend.cnt.b) : rend.cnt.b[i] \notin TailTokens

\* C10 amended: the count rendering of a query with no GROUP BY and no
\* DISTINCT has count(*) for the column list, the same FROM, join, WHERE and
\* HAVING text, and none of the query's own ORDER BY, LIMIT and OFFSET; the
\* members of a UNION are rendered in full, with theirs.
C10_CountHasNoOwnTail ==
    (CountAndLiteralRendered /\ ~Grouped(q)) =>
        /\ CountReplacesColumns(q)
        /\ \A i \in 1..(Len(rend.cnt.b) - Len(UnionPart(q))) :
               rend.cnt.b[i] \notin TailTokens
        /\ UnionPart(q) = SubSeq(rend.lit.b,
                                 Len(rend.lit.b) - Len(UnionPart(q)) + 1,
                                 Len(rend.lit.b))

C10_Witness ==
    /\ CountAndLiteralRendered
    /\ ~Grouped(q)
    /\ Len(q.order) > 0 /\ q.limit # 0 /\ q.offset # 0
    /\ Len(q.where) > 0 /\ Len(q.joins) > 0 /\ Len(q.union) > 0

----------------------------------------------------------------------------
(* SpecScan: Scan is executed on a query whose model has a tree of joins;
   the driver, the relation loaders and the AfterSelect hook answer freely *)

ItemsJoin == MkJoin(HasManyRelation, "items", <<"id">>, <<>>, <<>>)
PostsJoin == MkJoin(HasManyRelation, "posts", <<"id", "user_id">>, <<>>, <<>>)
TagsJoin == MkJoin(ManyToManyRelation, "tags", <<"id">>, <<>>, <<>>)
TeamJoin == MkJoin(BelongsToRelation, "team", <<"id">>, <<>>, <<TagsJoin>>)
ProfileJoin(joins) ==
    MkJoin(HasOneRelation, "profile", ProfileTable.Fields, <<>>, joins)

\* join trees that Relation("Profile"), Relation("Profile.Items"),
\* Relation("Posts"), Relation("Team.Tags") build on the model
JoinTrees ==
    {<<>>, <<PostsJoin>>, <<ProfileJoin(<<>>)>>,
     <<ProfileJoin(<<ItemsJoin>>), PostsJoin>>,
     <<PostsJoin, ProfileJoin(<<ItemsJoin>>)>>,
     <<PostsJoin, TeamJoin, ProfileJoin(<<ItemsJoin>>)>>}

LoaderAliases == {"items", "posts", "tags"}

ScanQueries ==
    {Table(NewSelectQuery, "t1"), joinOn(Table(NewSelectQuery, "t1"), <<"x">>, <<>>, " AND ")}
    \cup {[Model(NewSelectQuery, UserTable) EXCEPT !.modelJoins = js] : js \in JoinTrees}

InitScan ==
    /\ q \in ScanQueries
    /\ panicked = FALSE
    /\ hist = [calls |-> 0, lastOp |-> "none", joinOnFailed |-> FALSE]
    /\ out = NoOut
    /\ rend = IdleRend
    /\ driver = NoDriver
    /\ sc = IdleScan
    /\ sac = IdleSAC
    /\ vq = IdleValues

\* one call of q.Scan(ctx, dest)
ScanOnce ==
    \E drvErr \in {NoErr, ErrDriverScan}, n \in 0..2,
       failing \in SUBSET LoaderAliases, hookErr \in {NoErr, ErrAfterSelect} :
        LET r == Scan(q, [err |-> drvErr, n |-> n], failing, hookErr)
        IN  /\ ~sc.done
            /\ sc' = [done |-> TRUE, events |-> r.events, err |-> r.err, n |-> n,
                      drvErr |-> drvErr, failing |-> failing, hookErr |-> hookErr]
            /\ driver' = IF Queried(r) THEN [driver EXCEPT !.scan = @ + 1]
                         ELSE driver
            /\ UNCHANGED <<q, panicked, hist, out, rend, sac, vq>>

NextScan == ScanOnce

SpecScan == InitScan /\ [][NextScan]_vars

----------------------------------------------------------------------------
(* Claim about the order of Scan's events (checked under SpecScan) *)

EvRank(e) ==
    CASE e.ev = "render"      -> 1
      [] e.ev = "query"       -> 2
      [] e.ev = "load"        -> 3
      [] e.ev = "AfterSelect" -> 4

Happened(ev) == \E i \in 1..Len(sc.events) : sc.events[i].ev = ev

NumEvents(ev) == Cardinality({i \in 1..Len(sc.events) : sc.events[i].ev = ev})

\* the loader calls made, as the joins' aliases in call order
Loads ==
    LET idx == {i \in 1..Len(sc.events) : sc.events[i].ev = "load"}
    IN  [k \in 1..Cardinality(idx) |->
            sc.events[CHOOSE i \in idx : Cardinality({j \in idx : j <= i}) = k].arg]

RECURSIVE DeclaredLoads(_)
\* the has-many/many-to-many joins in declared order, those of a has-one
\* join's model in the place of that join
DeclaredLoads(joins) ==
    IF Len(joins) = 0 THEN <<>>
    ELSE (IF Head(joins).Type \in {HasManyRelation, ManyToManyRelation}
          THEN <<Head(joins).Alias>>
          ELSE DeclaredLoads(Head(joins).Joins))
         \o DeclaredLoads(Tail(joins))

IsPrefix(s, t) == Len(s) <= Len(t) /\ SubSeq(t, 1, Len(s)) = s

\* the order of events, the loader calls and the handling of loader errors,
\* common to the claim as stated and as amended
ScanOrder ==
    /\ sc.events[1].ev = "render"
    /\ \A i \in 1..(Len(sc.events) - 1) :
           EvRank(sc.events[i]) <= EvRank(sc.events[i + 1])
    /\ NumEvents("render") = 1 /\ NumEvents("query") <= 1
    /\ NumEvents("AfterSelect") <= 1
    /\ Happened("load") => (sc.drvErr = NoErr /\ sc.n > 0 /\ q.tableModel)
    /\ IsPrefix(Loads, DeclaredLoads(q.modelJoins))
    /\ \A i \in 1..(Len(Loads) - 1) : Loads[i] \notin sc.failing
    /\ (Len(Loads) > 0 /\ Loads[Len(Loads)] \in sc.failing)
           => (sc.err = ErrLoader /\ ~Happened("AfterSelect"))
    /\ (Len(Loads) = 0 \/ Loads[Len(Loads)] \notin sc.failing)
           => (Happened("load") => Loads = DeclaredLoads(q.modelJoins))
    /\ (sc.drvErr = NoErr /\ sc.n > 0 /\ q.tableModel /\ Happened("query")
        /\ \A a \in sc.failing :
               \A i \in 1..Len(DeclaredLoads(q.modelJoins)) :
                   DeclaredLoads(q.modelJoins)[i] # a)
           => Loads = DeclaredLoads(q.modelJoins)

\* C8 as stated: render, driver query, relation loading, post-select
\* callback, in this order; loading and the callback only when the query
\* succeeded, returned rows and a model is bound; one loader call per
\* has-many join in declared order; the first loader error ends the
\* sequence, is returned, and the callback is not invoked.
C8_CallbackOnlyWithRows ==
    sc.done =>
        /\ ScanOrder
        /\ Happened("AfterSelect")
               => (sc.drvErr = NoErr /\ sc.n > 0 /\ q.tableModel)

\* C8 amended: the same order, loader calls and loader-error handling;
\* relation loading happens only when the query succeeded, returned one or
\* more rows and a model is bound; the post-select callback is invoked
\* exactly when the driver query succeeded, a model is bound and no loader
\* failed, also when no row was returned.
C8_CallbackWheneverModelBound ==
    sc.done =>
        /\ ScanOrder
        /\ Happened("AfterSelect")
               <=> (Happened("query") /\ sc.drvErr = NoErr /\ q.tableModel
                    /\ (Len(Loads) = 0 \/ Loads[Len(Loads)] \notin sc.failing))
        /\ Happened("AfterSelect") => sc.err = sc.hookErr

C8_Witness ==
    /\ sc.done
    /\ Len(Loads) = 2
    /\ Len(DeclaredLoads(q.modelJoins)) = 3
    /\ sc.err = ErrLoader

----------------------------------------------------------------------------
(* SpecSAC: one call of ScanAndCount.  The caller and the two goroutines it
   starts take their steps in any order; sac.pc is the caller's position,
   sac.scan and sac.count the goroutines' ("none": not started). *)

SACQueries ==
    LET base == {Table(NewSelectQuery, "t1"),
                 Model(NewSelectQuery, UserTable),
                 joinOn(Table(NewSelectQuery, "t1"), <<"x">>, <<>>, " AND ")}
    IN  {Limit(s, n) : s \in base, n \in {-1, 0, 2}}

InitSAC ==
    /\ q \in SACQueries
    /\ panicked = FALSE
    /\ hist = [calls |-> 0, lastOp |-> "none", joinOnFailed |-> FALSE]
    /\ out = NoOut
    /\ rend = IdleRend
    /\ driver = NoDriver
    /\ sc = IdleScan
    /\ sac = IdleSAC
    /\ vq = IdleValues

\* ScanAndCount, line 693: the scan goroutine is started at all
ScanStartedNonPositive(limit) == limit > 0
ScanStarted(limit) == limit >= 0

\* ScanAndCount, lines 700-702 and 716-718: the guarded assignment
FirstErrAlwaysAssigned(firstErr, err) == err
SetFirstErr(firstErr, err) == IF firstErr = NoErr THEN err ELSE firstErr

\* lines 693-706: wg.Add(1) and the go statement of the scan, or neither
SACGoScan ==
    /\ sac.pc = "idle"
    /\ sac' = IF ScanStarted(q.limit)
              THEN [sac EXCEPT !.pc = "goCount", !.wg = @ + 1, !.scan = "run"]
              ELSE [sac EXCEPT !.pc = "goCount"]
    /\ UNCHANGED <<q, panicked, hist, out, rend, driver, sc, vq>>

\* lines 708-721: wg.Add(1) and the go statement of the count
SACGoCount ==
    /\ sac.pc = "goCount"
    /\ sac' = [sac EXCEPT !.pc = "wait", !.wg = @ + 1, !.count = "run"]
    /\ UNCHANGED <<q, panicked, hist, out, rend, driver, sc, vq>>

\* line 698: the scan goroutine calls q.Scan; with no error it is done
\* (the deferred wg.Done)
SACScanRun ==
    \E drvErr \in {NoErr, ErrDriverScan}, n \in 0..1,
       hookErr \in {NoErr, ErrAfterSelect} :
        LET r == Scan(q, [err |-> drvErr, n |-> n], {}, hookErr)
        IN  /\ sac.scan = "run"
            /\ sac' = [sac EXCEPT !.scanErr = r.err,
                                  !.destWritten = Queried(r) /\ drvErr = NoErr,
                                  !.scan = IF r.err # NoErr THEN "lock" ELSE "done",
                                  !.wg = IF r.err # NoErr THEN @ ELSE @ - 1]
            /\ sc' = [done |-> TRUE, events |-> r.events, err |-> r.err, n |-> n,
                      drvErr |-> drvErr, failing |-> {}, hookErr |-> hookErr]
            /\ driver' = IF Queried(r) THEN [driver EXCEPT !.scan = @ + 1]
                         ELSE driver
            /\ UNCHANGED <<q, panicked, hist, out, rend, vq>>

\* line 699: mu.Lock()
SACScanLock ==
    /\ sac.scan = "lock" /\ sac.mu = "free"
    /\ sac' = [sac EXCEPT !.mu = "scan", !.scan = "record"]
    /\ UNCHANGED <<q, panicked, hist, out, rend, driver, sc, vq>>

\* lines 700-704: the guarded assignment, mu.Unlock(), the deferred wg.Done
SACScanRecord ==
    /\ sac.scan = "record"
    /\ sac' = [sac EXCEPT !.firstErr = SetFirstErr(@, sac.scanErr),
                          !.recorded = Append(@, "scan"),
                          !.mu = "free", !.scan = "done", !.wg = @ - 1]
    /\ UNCHANGED <<q, panicked, hist, out, rend, driver, sc, vq>>

\* line 713: the count goroutine calls q.Count
SACCountRun ==
    \E drvErr \in {NoErr, ErrDriverCount}, num \in 1..2 :
        LET r == Count(q, drvErr, num)
        IN  /\ sac.count = "run"
            /\ sac' = [sac EXCEPT !.countErr = r.err, !.num = r.num,
                                  !.count = IF r.err # NoErr THEN "lock" ELSE "done",
                                  !.wg = IF r.err # NoErr THEN @ ELSE @ - 1]
            /\ driver' = IF Queried(r) THEN [driver EXCEPT !.count = @ + 1]
                         ELSE driver
            /\ UNCHANGED <<q, panicked, hist, out, rend, sc, vq>>

\* line 715: mu.Lock()
SACCountLock ==
    /\ sac.count = "lock" /\ sac.mu = "free"
    /\ sac' = [sac EXCEPT !.mu = "count", !.count = "record"]
    /\ UNCHANGED <<q, panicked, hist, out, rend, driver, sc, vq>>

\* lines 716-720: the guarded assignment, mu.Unlock(), the deferred wg.Done
SACCountRecord ==
    /\ sac.count = "record"
    /\ sac' = [sac EXCEPT !.firstErr = SetFirstErr(@, sac.countErr),
                          !.recorded = Append(@, "count"),
                          !.mu = "free", !.count = "done", !.wg = @ - 1]
    /\ UNCHANGED <<q, panicked, hist, out, rend, driver, sc, vq>>

\* lines 723-724: wg.Wait() returns when the counter is zero
SACReturn ==
    /\ sac.pc = "wait" /\ sac.wg = 0
    /\ sac' = [sac EXCEPT !.pc = "returned", !.ret = sac.firstErr,
                          !.retNum = sac.num]
    /\ UNCHANGED <<q, panicked, hist, out, rend, driver, sc, vq>>

NextSAC ==
    \/ SACGoScan
    \/ SACGoCount
    \/ SACScanRun
    \/ SACScanLock
    \/ SACScanRecord
    \/ SACCountRun
    \/ SACCountLock
    \/ SACCountRecord
    \/ SACReturn

SpecSAC == InitSAC /\ [][NextSAC]_vars

----------------------------------------------------------------------------
(* Claims about ScanAndCount (checked under SpecSAC) *)

ErrOf(op) == IF op = "scan" THEN sac.scanErr ELSE sac.countErr

\* C6: ScanAndCount returns only after both operations it started have
\* finished; neither is skipped because the other failed; the returned error
\* is nil exactly when neither failed, and otherwise the error of the
\* operation that recorded its failure first, never replaced by the later.
C6_FirstErrorAfterBoth ==
    /\ sac.firstErr # NoErr
           => (Len(sac.recorded) > 0 /\ sac.firstErr = ErrOf(sac.recorded[1]))
    /\ sac.pc = "returned" =>
           /\ sac.count = "done"
           /\ sac.scan \in {"none", "done"}
           /\ ScanStarted(q.limit) => (sac.scan = "done" /\ sc.done)
           /\ sac.ret = NoErr <=> (sac.scanErr = NoErr /\ sac.countErr = NoErr)
           /\ sac.ret # NoErr => sac.ret = ErrOf(sac.recorded[1])
           /\ sac.retNum = sac.num

C6_Witness ==
    /\ sac.pc = "returned"
    /\ sac.recorded = <<"count", "scan">>
    /\ sac.scanErr # sac.countErr
    /\ sac.ret = sac.countErr

----------------------------------------------------------------------------
(* ValuesQuery and its models.  vq is the query together with its model:
   kind is the model's type ("nil": no model, "map": a single map, which
   Values does not support, "mapSlice": *mapSliceModel, "struct" and "slice":
   the table models), slice the rows behind the model (one row for a struct),
   keys and keysNil the mapSliceModel's cached key list. *)

ErrValuesUnsupported == "bun: Values does not support the model"

\* the position of a key in lexicographic order
KeyRank(k) ==
    CASE k = "a" -> 1
      [] k = "b" -> 2
      [] k = "c" -> 3

RECURSIVE SortStrings(_)
\* sort.Strings over the keys collected from a map
SortStrings(S) ==
    IF S = {} THEN <<>>
    ELSE LET k == CHOOSE x \in S : \A y \in S : KeyRank(x) <= KeyRank(y)
         IN  <<k>> \o SortStrings(S \ {k})

\* sqlfmt.AppendIdent: the name in the dialect's identifier quotes
AppendIdent(name) == <<"\"", name, "\"">>

\* schema.Field.UserSQLType
UserSQLType(field) ==
    CASE field = "id" -> "BIGINT"
      [] OTHER        -> "VARCHAR"

RECURSIVE JoinTokens(_, _)
\* the "if i > 0 { append separator }" loops: the parts with sep in between
JoinTokens(parts, sep) ==
    IF Len(parts) = 0 THEN <<>>
    ELSE Head(parts) \o (IF Len(parts) > 1 THEN sep ELSE <<>>)
         \o JoinTokens(Tail(parts), sep)

\* baseQuery.setErr: keeps the first error
setErr(v, err) == IF v.err = NoErr THEN [v EXCEPT !.err = err] ELSE v

\* baseQuery.getFields: the fields of the bound table
getFields(v) == UserTable.Fields

ValuesResult(err, b, v) == [err |-> err, b |-> b, v |-> v]

\* initKeys without the cache test: the keys are taken anew on every render
initKeysEveryRender(v) ==
    IF Len(v.slice) = 0 THEN [err |-> ErrMapSliceEmpty, v |-> v]
    ELSE [err |-> NoErr,
          v |-> [v EXCEPT !.keys = SortStrings(DOMAIN v.slice[1]),
                          !.keysNil = FALSE]]

\* mapSliceModel.initKeys
mapSliceModel_initKeys(v) ==
    IF ~v.keysNil THEN [err |-> NoErr, v |-> v]
    ELSE IF Len(v.slice) = 0 THEN [err |-> ErrMapSliceEmpty, v |-> v]
    ELSE [err |-> NoErr,
          v |-> [v EXCEPT !.keys = SortStrings(DOMAIN v.slice[1]),
                          !.keysNil = FALSE]]

\* mapSliceModel.appendColumns
mapSliceModel_appendColumns(fmter, v) ==
    LET k == mapSliceModel_initKeys(v)
    IN  IF k.err # NoErr THEN ValuesResult(k.err, <<>>, k.v)
        ELSE ValuesResult(NoErr,
                 JoinTokens([i \in 1..Len(k.v.keys) |-> AppendIdent(k.v.keys[i])],
                            <<", ">>),
                 k.v)

\* el[key]: the zero value (nil) for a key the map does not have
MapValue(el, key) == IF key \in DOMAIN el THEN AppendValue(el[key]) ELSE "NULL"

\* "ROW(" with the ValuesRow feature, "(" without
RowOpen(v) == IF v.valuesRow THEN "ROW(" ELSE "("

\* mapSliceModel.appendValues
mapSliceModel_appendValues(fmter, v) ==
    LET k == mapSliceModel_initKeys(v)
        m == k.v
        row(el) == JoinTokens([j \in 1..Len(m.keys) |-> <<MapValue(el, m.keys[j])>>],
                              <<", ">>)
    IN  IF k.err # NoErr THEN ValuesResult(k.err, <<>>, m)
        ELSE IF IsNopFormatter(fmter)
        THEN ValuesResult(NoErr,
                 <<"VALUES ", RowOpen(m)>>
                 \o JoinTokens([i \in 1..Len(m.keys) |-> <<"?">>], <<", ">>),
                 m)
        ELSE ValuesResult(NoErr,
                 <<"VALUES ", RowOpen(m)>>
                 \o JoinTokens([i \in 1..Len(m.slice) |-> row(m.slice[i])],
                               <<"), ", RowOpen(m)>>)
                 \o <<")">>,
                 m)

\* ValuesQuery.appendValues: one row of a table model
ValuesQuery_appendValues(fmter, v, fields, strct) ==
    LET value(f) ==
            IF f \in DOMAIN v.modelValues
            THEN NodeAppendQuery(fmter, v.modelValues[f])
            ELSE <<IF IsNopFormatter(fmter) THEN "?" ELSE AppendValue(strct[f])>>
                 \o <<"::", UserSQLType(f)>>
    IN  JoinTokens([i \in 1..Len(fields) |-> value(fields[i])], <<", ">>)

\* the ", <index>" a row gets under WithOrder
OrderColumn(v, i) == IF v.withOrder THEN <<", ", AppendInt(i)>> ELSE <<>>

\* ValuesQuery.appendQuery
ValuesQuery_appendQuery(fmter, v, fields) ==
    LET row(i) == ValuesQuery_appendValues(fmter, v, fields, v.slice[i])
                  \o OrderColumn(v, i - 1)
    IN  CASE v.kind = "struct" ->
                 ValuesResult(NoErr, <<"VALUES ", RowOpen(v)>> \o row(1) \o <<")">>, v)
          [] v.kind = "slice" ->
                 ValuesResult(NoErr,
                     <<"VALUES ", RowOpen(v)>>
                     \o JoinTokens([i \in 1..Len(v.slice) |-> row(i)], <<"), (">>)
                     \o <<")">>,
                     v)
          [] OTHER -> ValuesResult(ErrValuesUnsupported, <<>>, v)

\* q.tableModel != nil
HasTableModel(v) == v.kind \in {"struct", "slice"}

\* ValuesQuery.AppendColumns
ValuesQuery_AppendColumns(fmter, v) ==
    IF v.err # NoErr THEN ValuesResult(v.err, <<>>, v)
    ELSE IF v.kind = "nil" THEN ValuesResult(ErrModelNil, <<>>, v)
    ELSE IF HasTableModel(v)
    THEN ValuesResult(NoErr,
             appendFieldColumns("", getFields(v))
             \o (IF v.withOrder THEN <<", _order">> ELSE <<>>),
             v)
    ELSE IF v.kind = "mapSlice" THEN mapSliceModel_appendColumns(fmter, v)
    ELSE ValuesResult(ErrValuesUnsupported, <<>>, v)

\* ValuesQuery.AppendQuery
ValuesQuery_AppendQuery(fmter, v) ==
    IF v.err # NoErr THEN ValuesResult(v.err, <<>>, v)
    ELSE IF v.kind = "nil" THEN ValuesResult(ErrModelNil, <<>>, v)
    ELSE IF HasTableModel(v) THEN ValuesQuery_appendQuery(fmter, v, getFields(v))
    ELSE IF v.kind = "mapSlice" THEN mapSliceModel_appendValues(fmter, v)
    ELSE ValuesResult(ErrValuesUnsupported, <<>>, v)

\* ValuesQuery.AppendArg: the text, whether the name was handled, the query
ValuesQuery_AppendArg(fmter, v, name) ==
    IF name = "Columns"
    THEN LET r == ValuesQuery_AppendColumns(fmter, v)
         IN  IF r.err # NoErr
             THEN [b |-> <<>>, ok |-> TRUE, v |-> setErr(r.v, r.err)]
             ELSE [b |-> r.b, ok |-> TRUE, v |-> r.v]
    ELSE [b |-> <<>>, ok |-> FALSE, v |-> v]

\* ValuesQuery.WithOrder
WithOrder(v) == [v EXCEPT !.withOrder = TRUE]

----------------------------------------------------------------------------
(* SpecValues: a ValuesQuery over one of a few models, rendered in any order
   and mode; between renders the caller may change the rows behind the map
   slice pointer. *)

MaxValuesCalls == 3

MapRow1 == [a |-> "foo", b |-> "5"]
MapRow2 == [a |-> "bar", b |-> "foo"]
MapRow3 == [b |-> "5", c |-> "bar"]
EmptyRow == [k \in {} |-> "5"]

MapSlices ==
    {<<>>, <<MapRow1>>, <<MapRow1, MapRow2>>, <<MapRow3, MapRow1>>,
     <<EmptyRow, MapRow1>>}

StructRow1 == [id |-> "5", name |-> "foo"]
StructRow2 == [id |-> "5", name |-> "bar"]

StructSlices == {<<>>, <<StructRow1>>, <<StructRow1, StructRow2>>}

ModelValuesChoices ==
    {<<>>, [name |-> SafeQuery(<<"lower(", "?", ")">>, <<"foo">>)]}

NewValuesQuery(kind, slice, valuesRow, modelValues) ==
    [kind |-> kind, err |-> NoErr, slice |-> slice, keys |-> <<>>,
     keysNil |-> TRUE, withOrder |-> FALSE, valuesRow |-> valuesRow,
     modelValues |-> modelValues]

ValuesQueries ==
    {NewValuesQuery(k, <<>>, r, <<>>) : k \in {"nil", "map"}, r \in BOOLEAN}
    \cup {NewValuesQuery("mapSlice", s, r, <<>>) : s \in MapSlices, r \in BOOLEAN}
    \cup {NewValuesQuery("struct", <<s>>, r, mv) :
              s \in {StructRow1, StructRow2}, r \in BOOLEAN,
              mv \in ModelValuesChoices}
    \cup {NewValuesQuery("slice", s, r, mv) :
              s \in StructSlices, r \in BOOLEAN, mv \in ModelValuesChoices}

ValuesRenderOps == {"AppendQuery", "AppendColumns", "AppendArg"}

InitValues ==
    /\ vq \in ValuesQueries \cup {WithOrder(v) : v \in ValuesQueries}
    /\ q = NewSelectQuery
    /\ panicked = FALSE
    /\ hist = [calls |-> 0, lastOp |-> "none", joinOnFailed |-> FALSE]
    /\ out = NoOut
    /\ rend = IdleRend
    /\ driver = NoDriver
    /\ sc = IdleScan
    /\ sac = IdleSAC

ValuesCalled(op) ==
    /\ hist.calls < MaxValuesCalls
    /\ hist' = [hist EXCEPT !.calls = @ + 1, !.lastOp = op]
    /\ UNCHANGED <<q, panicked, rend, driver, sc, sac>>

ValuesOut(op, fmter, err, b) ==
    [op |-> op, err |-> err, b |-> b, queried |-> FALSE, fmter |-> fmter]

DoValuesAppendQuery ==
    \E fmter \in Formatters :
        LET r == ValuesQuery_AppendQuery(fmter, vq)
        IN  /\ ValuesCalled("AppendQuery")
            /\ vq' = r.v
            /\ out' = ValuesOut("AppendQuery", fmter, r.err, r.b)

DoValuesAppendColumns ==
    \E fmter \in Formatters :
        LET r == ValuesQuery_AppendColumns(fmter, vq)
        IN  /\ ValuesCalled("AppendColumns")
            /\ vq' = r.v
            /\ out' = ValuesOut("AppendColumns", fmter, r.err, r.b)

DoValuesAppendArg ==
    \E fmter \in Formatters, name \in {"Columns", "TableName"} :
        LET r == ValuesQuery_AppendArg(fmter, vq, name)
        IN  /\ ValuesCalled("AppendArg")
            /\ vq' = r.v
            /\ out' = ValuesOut("AppendArg", fmter, NoErr, r.b)

\* the caller stores other rows behind the pointer the model was built on
DoSetRows ==
    \E s \in MapSlices :
        /\ vq.kind = "mapSlice" /\ s # vq.slice
        /\ ValuesCalled("SetRows")
        /\ vq' = [vq EXCEPT !.slice = s]
        /\ UNCHANGED out

NextValues ==
    \/ DoValuesAppendQuery
    \/ DoValuesAppendColumns
    \/ DoValuesAppendArg
    \/ DoSetRows

SpecValues == InitValues /\ [][NextValues]_vars

----------------------------------------------------------------------------
(* Claims about rendering a ValuesQuery (checked under SpecValues) *)

\* C4: rendering is idempotent and does not mutate the built query: any
\* number of renders, in any order of literal and placeholder mode, leaves
\* every field of the query and its model (rows, cached key list, stored
\* error) unchanged.
C4_RenderLeavesQueryUnchanged ==
    [][hist'.lastOp \in ValuesRenderOps => vq' = vq]_vars

----------------------------------------------------------------------------
(* Claims about the dynamic-row source (checked under SpecValues) *)

\* the keys are in strictly increasing lexicographic order
Sorted(keys) ==
    \A i, j \in 1..Len(keys) : i < j => KeyRank(keys[i]) < KeyRank(keys[j])

\* the set of the elements of a sequence
Range(seq) == {seq[i] : i \in 1..Len(seq)}

\* the first row of the sequence that has a key, the first row if none has
FirstNonEmptyRow(slice) ==
    IF \E i \in 1..Len(slice) : DOMAIN slice[i] # {}
    THEN slice[CHOOSE i \in 1..Len(slice) :
                   /\ DOMAIN slice[i] # {}
                   /\ \A j \in 1..(i - 1) : DOMAIN slice[j] = {}]
    ELSE slice[1]

\* this step is the render that fixes the key list
FixesKeys == vq.kind = "mapSlice" /\ vq.keysNil /\ ~vq'.keysNil

\* the last call rendered the map slice with success
MapSliceRendered(op, fmter) ==
    /\ vq.kind = "mapSlice"
    /\ hist.lastOp = op /\ out.op = op /\ out.fmter = fmter
    /\ out.err = NoErr

\* the rendered column list names the cached keys, in their order
ColumnListIsKeys ==
    LET n == Len(vq.keys)
    IN  /\ Len(out.b) = (IF n = 0 THEN 0 ELSE 4 * n - 1)
        /\ \A j \in 1..n : out.b[4 * j - 2] = vq.keys[j]

\* the j-th value of the i-th rendered row is the row's value under the
\* j-th cached key (the literal of no value when the row lacks the key)
RowsFollowKeys ==
    LET n == Len(vq.keys)
    IN  \A i \in 1..Len(vq.slice) : \A j \in 1..n :
            out.b[2 + (i - 1) * (2 * n + 1) + 2 * j - 1]
                = (IF vq.keys[j] \in DOMAIN vq.slice[i]
                   THEN AppendValue(vq.slice[i][vq.keys[j]]) ELSE "NULL")

\* C11 as stated: the render that fixes the column list takes the sorted key
\* set of the first non-empty row of the sequence.
C11_KeysOfFirstNonEmptyRow ==
    [][FixesKeys => vq'.keys = SortStrings(DOMAIN FirstNonEmptyRow(vq.slice))]_vars

\* C11: for a dynamic-row source the column list is the sorted key set of
\* the first row of the sequence (with or without keys) at the first render;
\* it is fixed by that render and reused by every later render for every
\* row; the rendered column list names those keys in order and every row's
\* values are the row's values under those keys in that order.
C11_KeysOfFirstRowFixed ==
    /\ [][/\ FixesKeys =>
                /\ Range(vq'.keys) = DOMAIN vq.slice[1]
                /\ Len(vq'.keys) = Cardinality(DOMAIN vq.slice[1])
          /\ (vq.kind = "mapSlice" /\ ~vq.keysNil)
                => (~vq'.keysNil /\ vq'.keys = vq.keys)]_vars
    /\ [](/\ (vq.kind = "mapSlice" /\ ~vq.keysNil) => Sorted(vq.keys)
          /\ MapSliceRendered("AppendColumns", Literal) => ColumnListIsKeys
          /\ MapSliceRendered("AppendColumns", Nop) => ColumnListIsKeys
          /\ MapSliceRendered("AppendQuery", Literal) => RowsFollowKeys)

C11_Witness ==
    /\ MapSliceRendered("AppendQuery", Literal)
    /\ vq.slice = <<MapRow3, MapRow1>>
    /\ vq.keys = <<"a", "b">>
    /\ out.b = <<"VALUES ", "(", "NULL", ", ", "5", "), ", "(", "'foo'", ", ", "5", ")">>

----------------------------------------------------------------------------
(* Claims about the shape of the rendered VALUES text (under SpecValues) *)

\* the last call was an AppendQuery in this mode that returned text
ValuesRendered(fmter) ==
    /\ hist.lastOp = "AppendQuery" /\ out.op = "AppendQuery"
    /\ out.fmter = fmter /\ out.err = NoErr

\* the number of tokens of b that are in S
CountTokens(b, S) == Cardinality({i \in 1..Len(b) : b[i] \in S})

\* tokens that open a parenthesis, tokens that close one
OpenTokens == {"(", "ROW(", "lower(", "), ("}
CloseTokens == {")", "), ", "), ("}

\* every parenthesis is closed and none is closed before it is opened
Balanced(b) ==
    /\ CountTokens(b, OpenTokens) = CountTokens(b, CloseTokens)
    /\ \A n \in 1..Len(b) :
           CountTokens(SubSeq(b, 1, n), {")", "), "})
               <= CountTokens(SubSeq(b, 1, n), {"(", "ROW(", "lower("})

\* the number of rows the text must hold: all the rows in literal mode, at
\* least one in either mode
RowsOpened(b) == CountTokens(b, {"(", "ROW(", "), ("})

\* every row is opened by "ROW(" with the ValuesRow feature, by "(" without
RowsOpenedByDialect(b) ==
    IF vq.valuesRow
    THEN CountTokens(b, {"(", "), ("}) = 0
    ELSE CountTokens(b, {"ROW("}) = 0

\* C12: both value sources render the same shape in both formatter modes:
\* "VALUES " and then one or more rows, every row a closed group opened by
\* "(" (by "ROW(" for every row with the ValuesRow feature) and closed by
\* ")", so the parentheses of the text are balanced.
C12_ClosedRowsBothModes ==
    \A fmter \in Formatters :
        ValuesRendered(fmter) =>
            /\ out.b[1] = "VALUES "
            /\ RowsOpened(out.b) >= 1
            /\ RowsOpenedByDialect(out.b)
            /\ Balanced(out.b)

\* the columns the query declares: the cached keys of a map slice, the
\* fields of a table model
DeclaredColumns ==
    IF vq.kind = "mapSlice" THEN vq.keys ELSE getFields(vq)

\* the row sequences with the columns of the rendered query: other numbers
\* of rows, other values
SameColumnRows ==
    CASE vq.kind = "mapSlice" ->
             {s \in MapSlices :
                  /\ Len(s) > 0
                  /\ \A i \in 1..Len(s) : DOMAIN s[i] = Range(vq.keys)}
      [] vq.kind = "struct" -> {<<StructRow1>>, <<StructRow2>>}
      [] vq.kind = "slice" -> StructSlices
      [] OTHER -> {vq.slice}

\* C13: in placeholder mode the rendered text has exactly one placeholder
\* per declared column and depends only on the column list: the same query
\* over any other row sequence with the same columns (more or fewer rows,
\* other values) renders the same placeholder-mode text.
C13_PlaceholderTextIgnoresRows ==
    ValuesRendered(Nop) =>
        /\ CountTokens(out.b, {"?"}) = Len(DeclaredColumns)
        /\ \A s \in SameColumnRows :
               ValuesQuery_AppendQuery(Nop, [vq EXCEPT !.slice = s]).b = out.b

====
